---- MODULE Spec2Model ----
(***************************************************************************)
(* A model of boost/geometry/algorithms/detail/sections/sectionalize.hpp:  *)
(* splitting a linestring, ring, polygon or box into monotonic sections.   *)
(*                                                                         *)
(* Coordinates are integers (coordinate_type = int), a point is a tuple of *)
(* PointDimension coordinates, and dimension d of the code (0-based) is    *)
(* component d + 1 of a tuple.  A sequence of points is 1-based, so the    *)
(* point with index k of the code is element k + 1.                        *)
(***************************************************************************)
EXTENDS Integers, Sequences, FiniteSets, TLC

\* ------------------------------------------------------------------------
\* Program constants
\* ------------------------------------------------------------------------

\* sectionalize(): static std::size_t const max_segments_per_section = 10
max_segments_per_section == 10

\* geometry::dimension<Point>::type::value (a box has exactly 2 dimensions)
PointDimension == 2

\* the coordinate type's highest value, as assign_inverse uses it
CoordHighest == 99

\* ------------------------------------------------------------------------
\* Bounds of the model
\* ------------------------------------------------------------------------

\* longest range of arbitrary points
MaxLen == 4

\* a long run has max_segments_per_section + ExtraRun segments
ExtraRun == 2

\* most interior rings of a polygon
MaxInteriors == 2

\* most calls of sectionalize on one collection
MaxCalls == 2

\* most members of a multi-shape
MaxMembers == 2

VARIABLES
    DimensionCount, \* Sections::value, the number of tracked dimensions
    geometry,       \* the geometry passed to the running (or last) call
    sections,       \* the caller's collection
    given,          \* the collection as the caller passed it to the call
    pc,             \* position of the call
    calls,          \* calls of sectionalize made so far
    range,          \* sectionalize_range: the range passed
    closure,        \* sectionalize_range: the Closure template argument
    ring_index,     \* sectionalize_range: argument
    multi_index,    \* sectionalize_range: argument
    i,              \* sectionalize_polygon: interior rings already passed on
    view,           \* sectionalize_range: view_type view(range)
    section,        \* sectionalize_range: the section in progress
    index,          \* sectionalize_range: int index
    ndi             \* sectionalize_range: int ndi

vars == <<DimensionCount, geometry, sections, given, pc, calls, range, closure,
          ring_index, multi_index, i, view, section, index, ndi>>

\* ------------------------------------------------------------------------
\* Points, boxes, views (the collaborators of the unit)
\* ------------------------------------------------------------------------

Dims == 1..PointDimension

Origin == [d \in Dims |-> 0]

Min(a, b) == IF a < b THEN a ELSE b

Max(a, b) == IF a > b THEN a ELSE b

\* geometry::math::equals on an integer coordinate type
MathEquals(a, b) == a = b

\* assign_inverse(box): min corner highest, max corner lowest
AssignInverse ==
    [min_corner |-> [d \in Dims |-> CoordHighest],
     max_corner |-> [d \in Dims |-> -CoordHighest]]

\* geometry::combine(box, point): grow the box to contain the point
Combine(box, p) ==
    [min_corner |-> [d \in Dims |-> Min(box.min_corner[d], p[d])],
     max_corner |-> [d \in Dims |-> Max(box.max_corner[d], p[d])]]

\* closeable_view<Range const, Closure>: the range itself when it is stored
\* closed, the range followed by its first point when it is stored open
CloseableView(rng, cl) ==
    IF cl = "open" /\ Len(rng) > 0 THEN Append(rng, rng[1]) ELSE rng

\* assign_box_corners(box, ll, lr, ul, ur)
AssignBoxCorners(box) ==
    [ll |-> <<box.min_corner[1], box.min_corner[2]>>,
     lr |-> <<box.max_corner[1], box.min_corner[2]>>,
     ul |-> <<box.min_corner[1], box.max_corner[2]>>,
     ur |-> <<box.max_corner[1], box.max_corner[2]>>]

\* ------------------------------------------------------------------------
\* section and the per-dimension loops
\* ------------------------------------------------------------------------

\* variant of NewSection: id starts at 0 instead of -1
NewSectionIdZero ==
    [id                  |-> 0,
     directions          |-> [d \in 1..DimensionCount |-> 0],
     ring_index          |-> -99,
     multi_index         |-> -99,
     bounding_box        |-> AssignInverse,
     begin_index         |-> -1,
     end_index           |-> -1,
     count               |-> 0,
     range_count         |-> 0,
     duplicate           |-> FALSE,
     non_duplicate_index |-> -1]

\* section::section()
NewSection ==
    [id                  |-> -1,
     directions          |-> [d \in 1..DimensionCount |-> 0],
     ring_index          |-> -99,
     multi_index         |-> -99,
     bounding_box        |-> AssignInverse,
     begin_index         |-> -1,
     end_index           |-> -1,
     count               |-> 0,
     range_count         |-> 0,
     duplicate           |-> FALSE,
     non_duplicate_index |-> -1]

\* one dimension of get_direction_loop
Sign(diff) == IF diff > 0 THEN 1 ELSE IF diff < 0 THEN -1 ELSE 0

\* get_direction_loop<Segment, 0, DimensionCount>
GetDirection(previous, it) ==
    [d \in 1..DimensionCount |-> Sign(it[d] - previous[d])]

\* variant of Compare: a compare_loop that stops after dimension 0
CompareOnlyFirst(source, target) == target[1] = source[1]

\* compare_loop<int, 0, DimensionCount>: TRUE when all entries are equal
Compare(source, target) ==
    \A d \in 1..DimensionCount : target[d] = source[d]

\* variant of CheckDuplicate: the loop run over the tracked dimensions only
CheckDuplicateTracked(previous, it) ==
    \A d \in 1..DimensionCount : MathEquals(it[d] - previous[d], 0)

\* check_duplicate_loop<segment_type, 0, dimension<Point>::value>
CheckDuplicate(previous, it) ==
    \A d \in Dims : MathEquals(it[d] - previous[d], 0)

\* assign_loop<int, 0, DimensionCount>
AssignAll(value) == [d \in 1..DimensionCount |-> value]

\* sectionalize_part::apply, the duplicate flag of a segment
IsDuplicate(previous, it) ==
    /\ GetDirection(previous, it)[1] = 0
    /\ CheckDuplicate(previous, it)

\* variant of DirectionClasses: without assign_loop(direction_classes, -99)
DirectionClassesNoSentinel(previous, it) == GetDirection(previous, it)

\* sectionalize_part::apply, direction_classes of a segment
DirectionClasses(previous, it) ==
    IF IsDuplicate(previous, it)
    THEN AssignAll(-99)
    ELSE GetDirection(previous, it)

\* variant of NeedFlush: without the test of section.count > MaxCount
NeedFlushNoCap(sec, direction_classes) ==
    /\ sec.count > 0
    /\ ~Compare(direction_classes, sec.directions)

\* variant of NeedFlush: section.count >= MaxCount instead of > MaxCount
NeedFlushAtMax(sec, direction_classes) ==
    /\ sec.count > 0
    /\ \/ ~Compare(direction_classes, sec.directions)
       \/ sec.count >= max_segments_per_section

\* variant of NeedFlush: without the test of section.count > 0
NeedFlushEmptyToo(sec, direction_classes) ==
    \/ ~Compare(direction_classes, sec.directions)
    \/ sec.count > max_segments_per_section

\* sectionalize_part::apply, the condition to push the section in progress
NeedFlush(sec, direction_classes) ==
    /\ sec.count > 0
    /\ \/ ~Compare(direction_classes, sec.directions)
       \/ sec.count > max_segments_per_section

\* variant of StartSection: without combine(section.bounding_box, *previous)
StartSectionNoPrevious(sec, idx, nd, rng_size, ring_idx, multi_idx, previous, it) ==
    IF sec.count = 0
    THEN [sec EXCEPT
            !.begin_index = idx,
            !.ring_index = ring_idx,
            !.multi_index = multi_idx,
            !.duplicate = IsDuplicate(previous, it),
            !.non_duplicate_index = nd,
            !.range_count = rng_size,
            !.directions = DirectionClasses(previous, it)]
    ELSE sec

\* variant of StartSection: without section.multi_index = multi_index
StartSectionNoMulti(sec, idx, nd, rng_size, ring_idx, multi_idx, previous, it) ==
    IF sec.count = 0
    THEN [sec EXCEPT
            !.begin_index = idx,
            !.ring_index = ring_idx,
            !.duplicate = IsDuplicate(previous, it),
            !.non_duplicate_index = nd,
            !.range_count = rng_size,
            !.directions = DirectionClasses(previous, it),
            !.bounding_box = Combine(sec.bounding_box, previous)]
    ELSE sec

\* variant of StartSection: without section.range_count = boost::size(range)
StartSectionNoRangeCount(sec, idx, nd, rng_size, ring_idx, multi_idx, previous, it) ==
    IF sec.count = 0
    THEN [sec EXCEPT
            !.begin_index = idx,
            !.ring_index = ring_idx,
            !.multi_index = multi_idx,
            !.duplicate = IsDuplicate(previous, it),
            !.non_duplicate_index = nd,
            !.directions = DirectionClasses(previous, it),
            !.bounding_box = Combine(sec.bounding_box, previous)]
    ELSE sec

\* sectionalize_part::apply, if (section.count == 0) { ... }
StartSection(sec, idx, nd, rng_size, ring_idx, multi_idx, previous, it) ==
    IF sec.count = 0
    THEN [sec EXCEPT
            !.begin_index = idx,
            !.ring_index = ring_idx,
            !.multi_index = multi_idx,
            !.duplicate = IsDuplicate(previous, it),
            !.non_duplicate_index = nd,
            !.range_count = rng_size,
            !.directions = DirectionClasses(previous, it),
            !.bounding_box = Combine(sec.bounding_box, previous)]
    ELSE sec

\* sectionalize_part::apply, the statements after the if that end the body
AddSegment(sec, idx, it) ==
    [sec EXCEPT
        !.bounding_box = Combine(sec.bounding_box, it),
        !.end_index = idx + 1,
        !.count = sec.count + 1]

\* variant of CountNonDuplicate: ndi++ for every segment
CountEverySegment(nd, previous, it) == nd + 1

\* sectionalize_part::apply, if (! duplicate) { ndi++; }
CountNonDuplicate(nd, previous, it) ==
    IF IsDuplicate(previous, it) THEN nd ELSE nd + 1

\* sectionalize_part::apply, one iteration of the for loop on the segment
\* (previous, it) = (view[idx], view[idx + 1]) of the code
PartIteration(secs, sec, idx, nd, vw, ring_idx, multi_idx) ==
    LET previous == vw[idx + 1]
        it       == vw[idx + 2]
        flush    == NeedFlush(sec, DirectionClasses(previous, it))
        kept     == IF flush THEN NewSection ELSE sec
        started  == StartSection(kept, idx, nd, Len(vw), ring_idx, multi_idx,
                                 previous, it)
    IN  [sections |-> IF flush THEN Append(secs, sec) ELSE secs,
         section  |-> AddSegment(started, idx, it),
         index    |-> idx + 1,
         ndi      |-> CountNonDuplicate(nd, previous, it)]

\* variant of AddLastSection: the section in progress is dropped
AddLastSectionNever(secs, sec) == secs

\* sectionalize_range::apply, add last section if applicable
AddLastSection(secs, sec) ==
    IF sec.count > 0 THEN Append(secs, sec) ELSE secs

\* variant of BoxPoints: the corners pushed as ll, lr, ur, ul, ll
BoxPointsClockwiseFromRight(box) ==
    LET c == AssignBoxCorners(box)
    IN  <<c.ll, c.lr, c.ur, c.ul, c.ll>>

\* sectionalize_box::apply, the vector of 5 points
BoxPoints(box) ==
    LET c == AssignBoxCorners(box)
    IN  <<c.ll, c.ul, c.ur, c.lr, c.ll>>

\* variant of SetSectionUniqueIds: index starts at 1
SetSectionUniqueIdsFromOne(secs) ==
    [k \in 1..Len(secs) |-> [secs[k] EXCEPT !.id = k]]

\* set_section_unique_ids
SetSectionUniqueIds(secs) ==
    [k \in 1..Len(secs) |-> [secs[k] EXCEPT !.id = k - 1]]

\* variant of Clear: the collection is left as it was passed
ClearNothing(secs) == secs

\* sectionalize: sections.clear()
Clear(secs) == <<>>

\* variant of InteriorRingIndex: the counter i starts at 1
InteriorRingIndexFromOne(n) == n + 1

\* sectionalize_polygon::apply, the ring_index passed for an interior ring,
\* n being the number of interior rings passed on before it
InteriorRingIndex(n) == n

\* ------------------------------------------------------------------------
\* The dispatcher: what each kind of geometry passes to sectionalize_range
\* ------------------------------------------------------------------------

\* dispatch::sectionalize<Tag, ...>: the first range passed on
FirstRange(g) ==
    CASE g.kind = "box"        -> BoxPoints(g)
      [] g.kind = "linestring" -> g.points
      [] g.kind = "ring"       -> g.points
      [] g.kind = "polygon"    -> g.exterior

\* dispatch::sectionalize<Tag, ...>: the Closure argument
ClosureOf(g) ==
    CASE g.kind = "box"        -> "closed"
      [] g.kind = "linestring" -> "closed"
      [] g.kind = "ring"       -> g.closure
      [] g.kind = "polygon"    -> g.closure

\* sectionalize_polygon::apply: the interior rings (none for other kinds)
InteriorRings(g) == IF g.kind = "polygon" THEN g.interiors ELSE <<>>

\* the multi-shape kinds: a sequence of polygons, a sequence of linestrings
IsMulti(g) == g.kind \in {"multi_polygon", "multi_linestring"}

\* the single shape whose sectionalizer runs when a shape of g is being
\* traversed with multi_index m: g itself, or member m of a multi-shape
SingleShape(g, m) == IF IsMulti(g) THEN g.members[m + 1] ELSE g

\* ------------------------------------------------------------------------
\* The call as a function of the geometry: what sectionalize leaves in a
\* collection that was empty when it was passed
\* ------------------------------------------------------------------------

RECURSIVE PartLoop(_, _, _, _, _, _, _)
\* sectionalize_part::apply, the whole loop
PartLoop(secs, sec, idx, nd, vw, ring_idx, multi_idx) ==
    IF idx + 1 < Len(vw)
    THEN LET r == PartIteration(secs, sec, idx, nd, vw, ring_idx, multi_idx)
         IN  PartLoop(r.sections, r.section, r.index, r.ndi, vw,
                      ring_idx, multi_idx)
    ELSE [sections |-> secs, section |-> sec]

\* sectionalize_range::apply
SectionalizeRange(rng, cl, secs, ring_idx, multi_idx) ==
    LET vw == CloseableView(rng, cl)
    IN  IF Len(vw) <= 1
        THEN secs
        ELSE LET r == PartLoop(secs, NewSection, 0, 0, vw, ring_idx, multi_idx)
             IN  AddLastSection(r.sections, r.section)

RECURSIVE SectionalizeInteriors(_, _, _, _)
\* sectionalize_polygon::apply, the loop over the interior rings from n on
SectionalizeInteriors(g, secs, n, multi_idx) ==
    IF n < Len(InteriorRings(g))
    THEN SectionalizeInteriors(
             g,
             SectionalizeRange(InteriorRings(g)[n + 1], ClosureOf(g), secs,
                               InteriorRingIndex(n), multi_idx),
             n + 1, multi_idx)
    ELSE secs

\* sectionalize on an empty collection
SectionalizeEmpty(g) ==
    SetSectionUniqueIds(
        SectionalizeInteriors(
            g, SectionalizeRange(FirstRange(g), ClosureOf(g), <<>>, -1, -1),
            0, -1))

\* ------------------------------------------------------------------------
\* The geometries passed to sectionalize
\* ------------------------------------------------------------------------

Coords == {0, 1}

Points == [Dims -> Coords]

Steps == [Dims -> {-1, 0, 1}]

\* every sequence over S of length at most n
SeqsUpTo(S, n) == UNION {[1..k -> S] : k \in 0..n}

\* the n points reached from p by n steps of s
Walk(p, s, n) == [k \in 1..n |-> [d \in Dims |-> p[d] + k * s[d]]]

LongRun == max_segments_per_section + ExtraRun

RunLens == {1, LongRun}

\* the range that starts at the origin and makes n1 steps of s1, then n2 of s2
TwoRuns(s1, n1, s2, n2) ==
    LET first == <<Origin>> \o Walk(Origin, s1, n1)
    IN  first \o Walk(first[Len(first)], s2, n2)

ShortRanges == SeqsUpTo(Points, MaxLen)

LongRanges ==
    {TwoRuns(s1, n1, s2, n2) :
        s1 \in Steps, n1 \in RunLens, s2 \in Steps, n2 \in {0} \cup RunLens}

Ranges == ShortRanges \cup LongRanges

LineStrings == {[kind |-> "linestring", points |-> r] : r \in Ranges}

Rings ==
    {[kind |-> "ring", closure |-> c, points |-> r] :
        c \in {"open", "closed"}, r \in Ranges}

BoxCoords == {0, 1, 3}

\* a box has min_corner <= max_corner in every dimension
Boxes ==
    {[kind |-> "box", min_corner |-> c[1], max_corner |-> c[2]] :
        c \in {b \in [Dims -> BoxCoords] \X [Dims -> BoxCoords] :
                  \A d \in Dims : b[1][d] <= b[2][d]}}

\* the rings polygons are made of: empty, one point, a repeated point,
\* a triangle, a ring with a zero-length edge, stored with its closing point
PolygonRings ==
    {<<>>,
     <<<<0, 0>>>>,
     <<<<1, 1>>, <<1, 1>>>>,
     <<<<0, 0>>, <<1, 0>>, <<1, 1>>>>,
     <<<<0, 0>>, <<0, 1>>, <<0, 1>>, <<1, 0>>, <<0, 0>>>>}

Polygons ==
    {[kind |-> "polygon", closure |-> c, exterior |-> e, interiors |-> h] :
        c \in {"open", "closed"}, e \in PolygonRings,
        h \in SeqsUpTo(PolygonRings, MaxInteriors)}

Geometries == LineStrings \cup Rings \cup Boxes \cup Polygons

\* the members of multi-shapes: all of one type, so of one closure
MemberPolygons(c) ==
    {[kind |-> "polygon", closure |-> c, exterior |-> e, interiors |-> h] :
        e \in PolygonRings,
        h \in {<<>>, <<<<<<0, 0>>, <<1, 0>>, <<1, 1>>>>>>}}

MemberLineStrings ==
    {[kind |-> "linestring", points |-> r] :
        r \in PolygonRings \cup {TwoRuns(s, LongRun, s, 0) : s \in {<<1, 0>>}}}

MultiGeometries ==
    {[kind |-> "multi_polygon", members |-> ms] :
        ms \in UNION {SeqsUpTo(MemberPolygons(c), MaxMembers) :
                         c \in {"open", "closed"}}}
    \cup {[kind |-> "multi_linestring", members |-> ms] :
             ms \in SeqsUpTo(MemberLineStrings, MaxMembers)}

\* the geometries of the specification of repeated calls
FewRanges == SeqsUpTo({<<0, 0>>, <<1, 1>>}, 2) \cup {<<<<0, 0>>, <<1, 0>>, <<1, 1>>, <<0, 0>>>>}

FewGeometries ==
    {[kind |-> "linestring", points |-> r] : r \in FewRanges}
    \cup {[kind |-> "ring", closure |-> "open", points |-> r] : r \in FewRanges}
    \cup {[kind |-> "box", min_corner |-> <<0, 0>>, max_corner |-> hi] :
            hi \in {<<0, 0>>, <<1, 3>>}}
    \cup {[kind |-> "polygon", closure |-> "closed",
           exterior |-> <<<<0, 0>>, <<1, 0>>, <<1, 1>>, <<0, 0>>>>,
           interiors |-> h] : h \in SeqsUpTo({<<<<0, 0>>, <<1, 1>>>>}, 1)}

\* ------------------------------------------------------------------------
\* The state machine
\* ------------------------------------------------------------------------

Init ==
    /\ DimensionCount \in 1..PointDimension
    /\ geometry = [kind |-> "none"]
    /\ sections = <<>>
    /\ given = <<>>
    /\ pc = "idle"
    /\ calls = 0
    /\ range = <<>>
    /\ closure = "closed"
    /\ ring_index = -1
    /\ multi_index = -1
    /\ i = 0
    /\ view = <<>>
    /\ section = NewSection
    /\ index = 0
    /\ ndi = 0

\* sectionalize(geometry, sections): clear the collection and enter the
\* sectionalizer of the geometry's kind, which passes its first range on
Sectionalize(g) ==
    /\ pc \in {"idle", "done"}
    /\ calls < MaxCalls
    /\ calls' = calls + 1
    /\ geometry' = g
    /\ given' = sections
    /\ sections' = Clear(sections)
    /\ IF IsMulti(g)
       THEN /\ multi_index' = 0
            /\ pc' = "members"
            /\ UNCHANGED <<range, closure>>
       ELSE /\ range' = FirstRange(g)
            /\ closure' = ClosureOf(g)
            /\ multi_index' = -1
            /\ pc' = "range"
    /\ ring_index' = -1
    /\ i' = 0
    /\ UNCHANGED <<DimensionCount, view, section, index, ndi>>

\* sectionalize_range::apply up to the loop of sectionalize_part::apply:
\* a view of 0 or 1 points returns at once; otherwise index and ndi start
\* at 0, so that sectionalize_part::apply does not return early
RangeBegin ==
    /\ pc = "range"
    /\ view' = CloseableView(range, closure)
    /\ IF Len(view') <= 1
       THEN /\ pc' = "return"
            /\ UNCHANGED <<section, index, ndi>>
       ELSE /\ pc' = "loop"
            /\ section' = NewSection
            /\ index' = 0
            /\ ndi' = 0
    /\ UNCHANGED <<DimensionCount, geometry, given, sections, calls, range, closure,
                   ring_index, multi_index, i>>

\* sectionalize_part::apply: one iteration of the loop over the segments
PartStep ==
    /\ pc = "loop"
    /\ index + 1 < Len(view)
    /\ LET r == PartIteration(sections, section, index, ndi, view,
                              ring_index, multi_index)
       IN  /\ sections' = r.sections
           /\ section' = r.section
           /\ index' = r.index
           /\ ndi' = r.ndi
    /\ UNCHANGED <<DimensionCount, geometry, given, pc, calls, range, closure,
                   ring_index, multi_index, i, view>>

\* sectionalize_range::apply after the loop: add the last section
RangeEnd ==
    /\ pc = "loop"
    /\ index + 1 >= Len(view)
    /\ sections' = AddLastSection(sections, section)
    /\ pc' = "return"
    /\ UNCHANGED <<DimensionCount, geometry, given, calls, range, closure,
                   ring_index, multi_index, i, view, section, index, ndi>>

\* sectionalize_polygon::apply: pass the next interior ring on
PolygonNext ==
    /\ pc = "return"
    /\ i < Len(InteriorRings(SingleShape(geometry, multi_index)))
    /\ range' = InteriorRings(SingleShape(geometry, multi_index))[i + 1]
    /\ ring_index' = InteriorRingIndex(i)
    /\ i' = i + 1
    /\ pc' = "range"
    /\ UNCHANGED <<DimensionCount, geometry, given, sections, calls, closure,
                   multi_index, view, section, index, ndi>>

\* the multi-shape sectionalizer: pass the next member on, with the loop
\* counter as its multi_index
MemberBegin ==
    /\ pc = "members"
    /\ multi_index < Len(geometry.members)
    /\ range' = FirstRange(SingleShape(geometry, multi_index))
    /\ closure' = ClosureOf(SingleShape(geometry, multi_index))
    /\ ring_index' = -1
    /\ i' = 0
    /\ pc' = "range"
    /\ UNCHANGED <<DimensionCount, geometry, given, sections, calls,
                   multi_index, view, section, index, ndi>>

\* the multi-shape sectionalizer: the sectionalizer of a member has
\* returned, go on to the next member
MemberEnd ==
    /\ pc = "return"
    /\ IsMulti(geometry)
    /\ i >= Len(InteriorRings(SingleShape(geometry, multi_index)))
    /\ multi_index' = multi_index + 1
    /\ pc' = "members"
    /\ UNCHANGED <<DimensionCount, geometry, given, sections, calls, range,
                   closure, ring_index, i, view, section, index, ndi>>

\* sectionalize: the sectionalizer has returned, set the ids and return
SetIds ==
    /\ IF IsMulti(geometry)
       THEN pc = "members" /\ multi_index >= Len(geometry.members)
       ELSE pc = "return" /\ i >= Len(InteriorRings(geometry))
    /\ sections' = SetSectionUniqueIds(sections)
    /\ pc' = "done"
    /\ UNCHANGED <<DimensionCount, geometry, given, calls, range, closure,
                   ring_index, multi_index, i, view, section, index, ndi>>

Traverse == RangeBegin \/ PartStep \/ RangeEnd \/ PolygonNext \/ SetIds

\* one call of sectionalize on any geometry
Next ==
    \/ calls = 0 /\ \E g \in Geometries : Sectionalize(g)
    \/ Traverse

Spec == Init /\ [][Next]_vars

\* repeated calls of sectionalize on the same collection
NextCalls ==
    \/ \E g \in FewGeometries : Sectionalize(g)
    \/ Traverse

SpecCalls == Init /\ [][NextCalls]_vars

\* one call of sectionalize on any multi-shape
NextMulti ==
    \/ calls = 0 /\ \E g \in MultiGeometries : Sectionalize(g)
    \/ MemberBegin
    \/ MemberEnd
    \/ Traverse

SpecMulti == Init /\ [][NextMulti]_vars

\* ------------------------------------------------------------------------
\* Properties
\* ------------------------------------------------------------------------

\* sectionalize has returned
Returned == pc = "done"

\* the ranges of a geometry in the order they are traversed: position r
\* holds the range whose sections carry ring_index r - 2
SourceRanges(g) == <<FirstRange(g)>> \o InteriorRings(g)

\* the points the sections of the range at position r index into
ViewAt(g, r) == CloseableView(SourceRanges(g)[r], ClosureOf(g))

\* the view a section of the collection indexes into
ViewOfSection(s) == ViewAt(geometry, s.ring_index + 2)

\* the sections with the ring_index of position r, in output order
SectionsAt(r) ==
    LET OfRing(s) == s.ring_index = r - 2
    IN  SelectSeq(sections, OfRing)

\* the segments of a section, by index
SegmentsOf(s) == s.begin_index..(s.end_index - 1)

\* segment k of view v has its two end points equal
ZeroLength(v, k) == v[k + 1] = v[k + 2]

\* C1: for every line or ring whose view has at least 2 points, the ranges
\* [begin_index, end_index) of its sections, in output order, start at 0,
\* are non-empty and contiguous (hence disjoint and ordered), and end at
\* the number of points of the view minus 1.
C1_Partition ==
    Returned =>
        \A r \in 1..Len(SourceRanges(geometry)) :
            LET v  == ViewAt(geometry, r)
                ss == SectionsAt(r)
            IN  Len(v) >= 2 =>
                    /\ Len(ss) >= 1
                    /\ ss[1].begin_index = 0
                    /\ \A k \in 1..Len(ss) : ss[k].begin_index < ss[k].end_index
                    /\ \A k \in 2..Len(ss) :
                           ss[k].begin_index = ss[k - 1].end_index
                    /\ ss[Len(ss)].end_index = Len(v) - 1

\* a ring stored open and cut into three sections or more, the last of
\* which ends with the segment to the synthetic closing point
C1_Witness ==
    /\ Returned
    /\ geometry.kind = "ring"
    /\ geometry.closure = "open"
    /\ Len(sections) >= 3
    /\ sections[Len(sections)].end_index = Len(geometry.points)

\* C2: in every non-duplicate section of the output, every segment of the
\* section has in each tracked dimension the sign of (end - start) that
\* the section stores in directions.
C2_DirectionConsistency ==
    Returned =>
        \A n \in 1..Len(sections) :
            LET s == sections[n]
                v == ViewOfSection(s)
            IN  ~s.duplicate =>
                    \A k \in SegmentsOf(s) : \A d \in 1..DimensionCount :
                        LET diff == v[k + 2][d] - v[k + 1][d]
                        IN  /\ s.directions[d] \in {-1, 0, 1}
                            /\ s.directions[d] = 1 <=> diff > 0
                            /\ s.directions[d] = -1 <=> diff < 0
                            /\ s.directions[d] = 0 <=> diff = 0

\* a non-duplicate section of several segments, two dimensions tracked
C2_Witness ==
    /\ Returned
    /\ DimensionCount = 2
    /\ \E n \in 1..Len(sections) :
           /\ ~sections[n].duplicate
           /\ sections[n].count >= 2
           /\ sections[n].directions[2] # 0

\* C3: at every point of a traversal, no section, pushed or in progress,
\* has count greater than max_segments_per_section + 1.
C3_RunLengthBound ==
    /\ \A n \in 1..Len(sections) :
           sections[n].count <= max_segments_per_section + 1
    /\ pc = "loop" => section.count <= max_segments_per_section + 1

\* a section was pushed at the cap and the run goes on in the next one
C3_Witness ==
    /\ pc = "loop"
    /\ section.count >= 1
    /\ Len(sections) >= 1
    /\ sections[Len(sections)].count = max_segments_per_section + 1
    /\ sections[Len(sections)].directions = section.directions

\* C4: when sectionalize returns, the k-th section of the output (counting
\* from 0) has id k, for every kind of geometry.
C4_IdsInOrder ==
    Returned => \A n \in 1..Len(sections) : sections[n].id = n - 1

\* a polygon whose exterior and interior rings all gave sections
C4_Witness ==
    /\ Returned
    /\ geometry.kind = "polygon"
    /\ Len(geometry.interiors) = 2
    /\ \A r \in 1..3 : Len(SectionsAt(r)) >= 1
    /\ Len(sections) >= 4

\* C5: sectionalizing a line or a ring that holds 0 points or 1 point
\* leaves the collection empty, whatever the closure of the ring.
C5_DegenerateRangeGivesNothing ==
    (/\ Returned
     /\ geometry.kind \in {"linestring", "ring"}
     /\ Len(geometry.points) <= 1)
        => sections = <<>>

\* C6: a box with min_corner < max_corner in both dimensions, two
\* dimensions tracked, gives exactly 4 sections, lower-left -> upper-left ->
\* upper-right -> lower-right -> lower-left, each of one segment, with
\* ring_index -1, ids 0..3, directions [0,1], [1,0], [0,-1], [-1,0], and
\* consecutive direction vectors perpendicular.
C6_BoxDecomposition ==
    (/\ Returned
     /\ geometry.kind = "box"
     /\ DimensionCount = 2
     /\ \A d \in Dims : geometry.min_corner[d] < geometry.max_corner[d])
        =>
        LET lo == geometry.min_corner
            hi == geometry.max_corner
            corner == <<lo, <<lo[1], hi[2]>>, hi, <<hi[1], lo[2]>>, lo>>
            dir == <<<<0, 1>>, <<1, 0>>, <<0, -1>>, <<-1, 0>>>>
        IN  /\ Len(sections) = 4
            /\ \A n \in 1..4 :
                   /\ sections[n].directions = dir[n]
                   /\ sections[n].count = 1
                   /\ sections[n].ring_index = -1
                   /\ sections[n].id = n - 1
                   /\ sections[n].begin_index = n - 1
                   /\ sections[n].end_index = n
                   /\ ~sections[n].duplicate
                   /\ \A d \in Dims :
                          /\ sections[n].bounding_box.min_corner[d]
                                 = Min(corner[n][d], corner[n + 1][d])
                          /\ sections[n].bounding_box.max_corner[d]
                                 = Max(corner[n][d], corner[n + 1][d])
            /\ \A n \in 1..4 :
                   LET a == sections[n].directions
                       b == sections[(n % 4) + 1].directions
                   IN  a[1] * b[1] + a[2] * b[2] = 0

\* a box that is wider than high, with both dimensions tracked
C6_Witness ==
    /\ Returned
    /\ geometry.kind = "box"
    /\ DimensionCount = 2
    /\ geometry.min_corner = <<0, 1>>
    /\ geometry.max_corner = <<3, 3>>
    /\ Len(sections) = 4

\* the box of section s is the smallest box that holds the points
\* begin_index..end_index of the view v
BoxIsHull(s, v) ==
    LET touched == s.begin_index..s.end_index
        box == s.bounding_box
    IN  \A d \in Dims :
            /\ \A k \in touched :
                   /\ box.min_corner[d] <= v[k + 1][d]
                   /\ v[k + 1][d] <= box.max_corner[d]
            /\ \E k \in touched : v[k + 1][d] = box.min_corner[d]
            /\ \E k \in touched : v[k + 1][d] = box.max_corner[d]

\* C7: the bounding_box of every section of the output is the smallest
\* axis-aligned box holding the points begin_index..end_index of its view,
\* so it holds both end points of each of its segments and is never the
\* inverted box.
C7_BoundingBox ==
    Returned =>
        \A n \in 1..Len(sections) :
            /\ BoxIsHull(sections[n], ViewOfSection(sections[n]))
            /\ \A d \in Dims :
                   sections[n].bounding_box.min_corner[d]
                       <= sections[n].bounding_box.max_corner[d]

\* a section of two segments or more that does not start at the first
\* point and whose first point alone sets a side of its box
C7_Witness ==
    /\ Returned
    /\ \E n \in 1..Len(sections) :
           LET s == sections[n]
               v == ViewOfSection(s)
           IN  /\ s.count >= 2
               /\ s.begin_index >= 1
               /\ \E d \in Dims :
                      \A k \in (s.begin_index + 1)..s.end_index :
                          v[s.begin_index + 1][d] < v[k + 1][d]

\* C8: a section of the output is a duplicate section exactly when all its
\* segments are zero-length, and no section holds both zero-length and
\* other segments.
C8_DuplicateSections ==
    Returned =>
        \A n \in 1..Len(sections) :
            LET s == sections[n]
                v == ViewOfSection(s)
            IN  /\ s.duplicate <=> \A k \in SegmentsOf(s) : ZeroLength(v, k)
                /\ \/ \A k \in SegmentsOf(s) : ZeroLength(v, k)
                   \/ \A k \in SegmentsOf(s) : ~ZeroLength(v, k)

\* a zero-length edge alone in a duplicate section, between a section
\* whose tracked directions are all zero and another non-duplicate one
C8_Witness ==
    /\ Returned
    /\ geometry.kind \in {"linestring", "ring"}
    /\ \E n \in 2..(Len(sections) - 1) :
           /\ sections[n].duplicate
           /\ sections[n].count = 1
           /\ ~sections[n - 1].duplicate
           /\ \A d \in 1..DimensionCount : sections[n - 1].directions[d] = 0
           /\ ~sections[n + 1].duplicate

\* C9: the sections of a polygon come ring by ring, the exterior ring
\* first with ring_index -1, then interior ring j with ring_index j, where
\* j counts every interior ring; a ring whose view has fewer than 2 points
\* gives none; begin_index restarts at 0 in each ring and every section
\* has multi_index -1.
C9_PolygonOrder ==
    (Returned /\ geometry.kind = "polygon") =>
        /\ \A n \in 1..Len(sections) :
               /\ sections[n].multi_index = -1
               /\ sections[n].ring_index \in -1..(Len(geometry.interiors) - 1)
        /\ \A n \in 1..Len(sections) : \A m \in n..Len(sections) :
               sections[n].ring_index <= sections[m].ring_index
        /\ \A r \in 1..Len(SourceRanges(geometry)) :
               LET v  == ViewAt(geometry, r)
                   ss == SectionsAt(r)
               IN  IF Len(v) < 2
                   THEN ss = <<>>
                   ELSE /\ Len(ss) >= 1
                        /\ ss[1].begin_index = 0
                        /\ ss[Len(ss)].end_index = Len(v) - 1
                        /\ \A k \in 1..Len(ss) :
                               /\ ss[k].range_count = Len(v)
                               /\ ss[k].end_index <= Len(v) - 1
                               /\ BoxIsHull(ss[k], v)

\* a polygon whose first interior ring gives no section and whose second
\* interior ring and exterior ring do
C9_Witness ==
    /\ Returned
    /\ geometry.kind = "polygon"
    /\ Len(geometry.interiors) = 2
    /\ Len(ViewAt(geometry, 2)) < 2
    /\ Len(SectionsAt(1)) >= 2
    /\ Len(SectionsAt(3)) >= 2
    /\ sections[Len(sections)].ring_index = 1

\* C10: whatever the collection held when it was passed, when sectionalize
\* returns it holds what sectionalize leaves in an empty collection for
\* the same geometry: sections, order and ids.
C10_ClearedAndRebuilt ==
    Returned => sections = SectionalizeEmpty(geometry)

\* a second call on a collection that held other sections
C10_Witness ==
    /\ Returned
    /\ calls = 2
    /\ given # <<>>
    /\ sections # <<>>
    /\ sections # given

\* the sections ss without their ids and multi_index
WithoutIds(ss) ==
    [k \in 1..Len(ss) |-> [ss[k] EXCEPT !.id = -1, !.multi_index = -1]]

\* the sections of the output cut from the member with multi_index m
SectionsOfMember(m) ==
    LET OfMember(s) == s.multi_index = m
    IN  SelectSeq(sections, OfMember)

NonDuplicatesBefore(v, k) == {j \in 0..(k - 1) : ~ZeroLength(v, j)}

\* C12: non_duplicate_index of every section of the output is the number
\* of segments of its ring that are not zero-length and have an index
\* smaller than the section's begin_index; the count restarts with each
\* ring.
C12_NonDuplicateIndex ==
    Returned =>
        \A n \in 1..Len(sections) :
            sections[n].non_duplicate_index
                = Cardinality(NonDuplicatesBefore(ViewOfSection(sections[n]),
                                                  sections[n].begin_index))

\* a section of an interior ring that starts after both zero-length and
\* other segments of that ring, the exterior ring having segments too
C12_Witness ==
    /\ Returned
    /\ geometry.kind = "polygon"
    /\ Len(SectionsAt(1)) >= 2
    /\ \E n \in 1..Len(sections) :
           /\ sections[n].ring_index = 0
           /\ sections[n].non_duplicate_index >= 1
           /\ sections[n].non_duplicate_index < sections[n].begin_index

C14_AtMostMaxSegments ==
    Returned =>
        \A n \in 1..Len(sections) :
            sections[n].count <= max_segments_per_section

\* segment k of view v keeps every tracked coordinate and changes a
\* coordinate that is not tracked
MovesUntrackedOnly(v, k) ==
    /\ \A d \in 1..DimensionCount : v[k + 1][d] = v[k + 2][d]
    /\ ~ZeroLength(v, k)

\* C15: a segment is a duplicate only when all coordinates of the point
\* are equal. A segment that keeps the tracked coordinates and changes an
\* untracked one lies in a section that is not a duplicate and whose
\* directions are all 0 (never the sentinel), and it is counted in the
\* non-duplicate index, in the loop and in the sections pushed after it.
C15_UntrackedDimension ==
    /\ \A n \in 1..Len(sections) :
           \A k \in SegmentsOf(sections[n]) :
               MovesUntrackedOnly(ViewOfSection(sections[n]), k) =>
                   /\ ~sections[n].duplicate
                   /\ sections[n].directions = AssignAll(0)
    /\ pc = "loop" =>
           /\ ndi = Cardinality(NonDuplicatesBefore(view, index))
           /\ \A k \in SegmentsOf(section) :
                  MovesUntrackedOnly(view, k) =>
                      /\ ~section.duplicate
                      /\ section.directions = AssignAll(0)

\* fewer tracked dimensions than the point has, and a section of two
\* segments that move in the untracked dimension only, followed in the
\* same ring by a section whose non_duplicate_index counts both
C15_Witness ==
    /\ Returned
    /\ DimensionCount < PointDimension
    /\ \E n \in 1..(Len(sections) - 1) :
           /\ sections[n].count = 2
           /\ \A k \in SegmentsOf(sections[n]) :
                  MovesUntrackedOnly(ViewOfSection(sections[n]), k)
           /\ sections[n].directions = AssignAll(0)
           /\ sections[n + 1].ring_index = sections[n].ring_index
           /\ sections[n + 1].non_duplicate_index
                  = sections[n].non_duplicate_index + 2

\* the range a section was cut from, as the caller supplied it
SourceOfSection(s) == SourceRanges(geometry)[s.ring_index + 2]

\* C16 as stated: for lines, rings and polygons of either closure,
\* range_count of every section is the number of points of the range the
\* caller supplied.
C16_CountOfSuppliedRange ==
    (Returned /\ geometry.kind \in {"linestring", "ring", "polygon"}) =>
        \A n \in 1..Len(sections) :
            sections[n].range_count = Len(SourceOfSection(sections[n]))

\* C16 amended: range_count of every section is the number of points of
\* the view the section indexes into: the points of the supplied range for
\* a line and for a ring stored closed, one more (the repeated first
\* point) for a non-empty ring stored open. All sections of a ring carry
\* the same range_count.
C16_CountOfView ==
    (Returned /\ geometry.kind \in {"linestring", "ring", "polygon"}) =>
        /\ \A n \in 1..Len(sections) :
               /\ sections[n].range_count = Len(ViewOfSection(sections[n]))
               /\ sections[n].range_count =
                      IF ClosureOf(geometry) = "open"
                      THEN Len(SourceOfSection(sections[n])) + 1
                      ELSE Len(SourceOfSection(sections[n]))
        /\ \A n, m \in 1..Len(sections) :
               sections[n].ring_index = sections[m].ring_index =>
                   sections[n].range_count = sections[m].range_count

\* a polygon stored open whose exterior ring and first interior ring have
\* different numbers of points and give two sections or more each
C16_Witness ==
    /\ Returned
    /\ geometry.kind = "polygon"
    /\ ClosureOf(geometry) = "open"
    /\ Len(geometry.interiors) >= 1
    /\ Len(geometry.exterior) # Len(geometry.interiors[1])
    /\ Len(SectionsAt(1)) >= 2
    /\ Len(SectionsAt(2)) >= 2
    /\ SectionsAt(1)[2].range_count = Len(geometry.exterior) + 1
    /\ SectionsAt(2)[2].range_count = Len(geometry.interiors[1]) + 1

\* the extent of a box in dimension d is zero
ZeroExtent(box, d) == box.min_corner[d] = box.max_corner[d]

\* C17 as stated: a box of zero width or zero height gives fewer than 4
\* sections, and no box gives more than 4.
C17_DegenerateBoxFewerSections ==
    (Returned /\ geometry.kind = "box") =>
        /\ Len(sections) <= 4
        /\ (ZeroExtent(geometry, 1) \/ ZeroExtent(geometry, 2)) =>
               Len(sections) < 4

\* C17 amended: no box gives more than 4 sections. A box of zero width
\* and zero height gives one duplicate section of 4 segments. Every other
\* box gives 4 sections of one segment each; when its width alone is zero
\* the second and fourth are duplicates, when its height alone is zero
\* the first and third are, and two zero-length segments are never
\* adjacent, so they do not merge.
C17_BoxSections ==
    (Returned /\ geometry.kind = "box") =>
        /\ Len(sections) <= 4
        /\ IF ZeroExtent(geometry, 1) /\ ZeroExtent(geometry, 2)
           THEN /\ Len(sections) = 1
                /\ sections[1].duplicate
                /\ sections[1].count = 4
           ELSE /\ Len(sections) = 4
                /\ \A n \in 1..4 :
                       /\ sections[n].count = 1
                       /\ sections[n].duplicate =
                              ZeroExtent(geometry, IF n \in {1, 3} THEN 2 ELSE 1)

\* a box of zero width and positive height, sectionalized on the first
\* dimension only, with its 4 sections
C17_Witness ==
    /\ Returned
    /\ geometry.kind = "box"
    /\ DimensionCount = 1
    /\ ZeroExtent(geometry, 1)
    /\ ~ZeroExtent(geometry, 2)
    /\ Len(sections) = 4
    /\ sections[2].duplicate
    /\ ~sections[3].duplicate

\* C18: at every point of a traversal, every section of the collection
\* has count >= 1, begin_index >= 0 and count = end_index - begin_index:
\* a section without segments is never pushed.
C18_NoEmptySection ==
    \A n \in 1..Len(sections) :
        /\ sections[n].count >= 1
        /\ sections[n].begin_index >= 0
        /\ sections[n].count = sections[n].end_index - sections[n].begin_index

\* the loop is entered on an interior ring with a section in progress that
\* has no segment yet, after the exterior ring gave sections pushed in the
\* loop and a last one pushed after it
C18_Witness ==
    /\ pc = "loop"
    /\ section.count = 0
    /\ ring_index >= 0
    /\ Len(sections) >= 3
    /\ sections[2].begin_index = sections[1].end_index
    /\ sections[Len(sections)].end_index = Len(geometry.exterior) - 1

\* sequence s is the beginning of sequence t
IsPrefix(s, t) ==
    /\ Len(s) <= Len(t)
    /\ \A k \in 1..Len(s) : t[k] = s[k]

\* C19: every step of a traversal that is not the assignment of the ids
\* leaves the sections already in the collection as they are, may append
\* sections after them, and leaves every id at -1; the step that ends the
\* traversal changes nothing but the id of each section, set to its
\* position.
C19_AppendOnly ==
    [][pc \notin {"idle", "done"} =>
          IF pc' = "done"
          THEN /\ Len(sections') = Len(sections)
               /\ \A n \in 1..Len(sections) :
                      /\ sections[n].id = -1
                      /\ sections'[n] = [sections[n] EXCEPT !.id = n - 1]
          ELSE /\ IsPrefix(sections, sections')
               /\ \A n \in 1..Len(sections') : sections'[n].id = -1]_vars

\* in the loop over an interior ring, sections of the exterior ring and of
\* this ring are in the collection, all without id
C19_Witness ==
    /\ pc = "loop"
    /\ ring_index >= 0
    /\ Len(sections) >= 3
    /\ sections[1].ring_index = -1
    /\ sections[Len(sections)].ring_index = ring_index
    /\ \A n \in 1..Len(sections) : sections[n].id = -1

====
